---- MODULE Spec2Model ----
(***************************************************************************)
(* Model of importlinter/contracts/_common.py: extraction of shortest      *)
(* import chains from a mutable graph (find_segments and the generator     *)
(* _pop_shortest_chains), collapsing of the segments against a reference   *)
(* graph (segments_to_collapsed_chains), the route based assembly          *)
(* (build_detailed_chain_from_route) and the rendering of notes            *)
(* (notes_from_chain_data, format_line_numbers).                           *)
(*                                                                         *)
(* The import graph is grimp's ImportGraph, an external collaborator.  It  *)
(* is modelled by its documented interface: a set of modules, a set of     *)
(* imports (importer, imported) and, per import, the list of line numbers  *)
(* of its recorded details (the empty list when none was recorded).        *)
(***************************************************************************)
EXTENDS Integers, Sequences, FiniteSets, TLC

\* Largest number of imports of the graphs explored.
MaxEdges == 4

\* ------------------------------------------------------------------ names

\* A module name is a dotted name; it is held as the sequence of its
\* components, each an index into Letters (kept in alphabetical order, so
\* that the order of the indices is the order of the characters).
Letters == <<"a", "m", "n", "x", "z">>

ModA == <<1>>
ModAX == <<1, 4>>
ModM == <<2>>
ModN == <<3>>
ModZ == <<5>>
ModZX == <<5, 4>>

Modules == {ModA, ModAX, ModM, ModN, ModZ, ModZX}

\* The imports a graph may hold.
CandidateImports ==
    { <<ModA, ModM>>, <<ModA, ModN>>, <<ModAX, ModM>>,
      <<ModM, ModN>>, <<ModN, ModM>>,
      <<ModM, ModZ>>, <<ModN, ModZ>>, <<ModM, ModZX>>,
      <<ModA, ModZ>> }

\* The lists of line numbers get_import_details may report for one import:
\* no detail recorded, one line, two lines reported out of order.
DetailChoices == { <<>>, <<1>>, <<2, 1>> }

\* None, the unknown line number of a Link; real line numbers start at 1.
None == 0

\* The dotted name as a string.
RECURSIVE Name(_)
Name(m) ==
    IF Len(m) = 1 THEN Letters[m[1]]
    ELSE Letters[m[1]] \o "." \o Name(Tail(m))

\* len(name): one character per component and one dot between two.
NameLen(m) == 2 * Len(m) - 1

\* Module.is_descendant_of: the name is `other`, a dot, and a non-empty rest.
is_descendant_of(m, other) ==
    /\ Len(m) > Len(other)
    /\ SubSeq(m, 1, Len(other)) = other

\* Python's str order on names (a dot sorts before every letter, a proper
\* prefix before its extensions): the lexicographic order of the components.
RECURSIVE StrLess(_, _)
StrLess(m1, m2) ==
    IF m1 = <<>> THEN m2 # <<>>
    ELSE IF m2 = <<>> THEN FALSE
    ELSE IF Head(m1) # Head(m2) THEN Head(m1) < Head(m2)
    ELSE StrLess(Tail(m1), Tail(m2))

\* sorted(names), descending: a sort with the comparison the wrong way round.
RECURSIVE sorted_descending(_)
sorted_descending(S) ==
    IF S = {} THEN <<>>
    ELSE LET x == CHOOSE x \in S : \A y \in S : y = x \/ StrLess(y, x)
         IN  <<x>> \o sorted_descending(S \ {x})

\* sorted(names).
RECURSIVE sorted(_)
sorted(S) ==
    IF S = {} THEN <<>>
    ELSE LET x == CHOOSE x \in S : \A y \in S : y = x \/ StrLess(x, y)
         IN  <<x>> \o sorted(S \ {x})

\* tuple(sorted(set(j["line_number"] for j in details))).
RECURSIVE SortedLines(_)
SortedLines(S) ==
    IF S = {} THEN <<>>
    ELSE LET x == CHOOSE x \in S : \A y \in S : x <= y
         IN  <<x>> \o SortedLines(S \ {x})

sorted_set(details) == SortedLines({ details[i] : i \in 1..Len(details) })

\* ------------------------------------------------------------------ graph

\* ImportGraph.get_import_details: the line numbers of the recorded details,
\* empty when the import is absent or has no detail.
get_import_details(g, importer_, imported_) ==
    IF <<importer_, imported_>> \in g.imports
    THEN g.details[<<importer_, imported_>>]
    ELSE <<>>

find_modules_that_directly_import(g, m) ==
    { e[1] : e \in { f \in g.imports : f[2] = m } }

find_modules_directly_imported_by(g, m) ==
    { e[2] : e \in { f \in g.imports : f[1] = m } }

\* ImportGraph.remove_import: idempotent; the import goes with its details,
\* the modules stay.
remove_import(g, importer_, imported_) ==
    [g EXCEPT !.imports = @ \ { <<importer_, imported_>> },
              !.details = [ e \in (DOMAIN @) \ { <<importer_, imported_>> } |-> @[e] ]]

\* The chains of k imports that start at `a` and visit no module twice.
RECURSIVE SimpleChains(_, _, _)
SimpleChains(E, a, k) ==
    IF k = 0 THEN { <<a>> }
    ELSE { Append(w, e[2]) :
             <<w, e>> \in { p \in SimpleChains(E, a, k - 1) \X E :
                              /\ p[2][1] = p[1][Len(p[1])]
                              /\ \A i \in 1..Len(p[1]) : p[1][i] # p[2][2] } }

ChainsOfLength(g, a, b, k) ==
    { w \in SimpleChains(g.imports, a, k) : w[Len(w)] = b }

\* Every chain from a to b that visits no module twice.
AllChains(g, a, b) ==
    UNION { ChainsOfLength(g, a, b, k) : k \in 1..(Cardinality(g.modules) - 1) }

HasPath(g, a, b) == AllChains(g, a, b) # {}

\* ImportGraph.find_shortest_chain: a chain with the fewest imports, which
\* one among equals is the graph's choice; None (here the empty tuple, as
\* falsy as None) when there is no chain.
find_shortest_chain(g, a, b) ==
    LET all == AllChains(g, a, b)
    IN  IF all = {} THEN { <<>> }
        ELSE { c \in all : \A d \in all : Len(c) <= Len(d) }

\* The imports (chain[i], chain[i + 1]) of a chain of module names.
ChainImports(c) == { <<c[i], c[i + 1]>> : i \in 1..(Len(c) - 1) }

\* ------------------------------------------------- _pop_shortest_chains

\* `while chain:` / `if chain:` taken for a chain of more than one import only.
ChainFound_indirect(c) == Len(c) > 2

\* `while chain:` / `if chain:`: a found chain is a non-empty tuple.
ChainFound(c) == c # <<>>

\* The removal loop stopping after the first import of the chain.
RECURSIVE RemoveChain_first(_, _, _)
RemoveChain_first(g, c, index) ==
    IF index >= 2 \/ index > Len(c) - 1 THEN g
    ELSE RemoveChain_first(remove_import(g, c[index], c[index + 1]), c, index + 1)

\* The removal taking, with each import of the chain, every other import of
\* the same imported module.
RECURSIVE RemoveChain_importers(_, _, _)
RemoveChain_importers(g, c, index) ==
    IF index > Len(c) - 1 THEN g
    ELSE RemoveChain_importers(
             [g EXCEPT !.imports = { e \in @ : e[2] # c[index + 1] }], c, index + 1)

\* The removal also forgetting the importer once it imports nothing.
RECURSIVE RemoveChain_modules(_, _, _)
RemoveChain_modules(g, c, index) ==
    IF index > Len(c) - 1 THEN g
    ELSE LET h == remove_import(g, c[index], c[index + 1])
         IN  RemoveChain_modules(
                 IF find_modules_directly_imported_by(h, c[index]) = {}
                 THEN [h EXCEPT !.modules = @ \ { c[index] }]
                 ELSE h,
                 c, index + 1)

\* for index in range(len(chain) - 1): graph.remove_import(chain[index], chain[index + 1])
RECURSIVE RemoveChain(_, _, _)
RemoveChain(g, c, index) ==
    IF index > Len(c) - 1 THEN g
    ELSE RemoveChain(remove_import(g, c[index], c[index + 1]), c, index + 1)

\* ---------------------------------------------------------- find_segments

\* The direct chain check reading a chain of one module.
IsDirectChain_one(c) == Len(c) = 1

\* if len(chain) == 2
IsDirectChain(c) == Len(c) = 2

\* One Link of a segment, its line numbers from the reference graph.
SegmentLink(ref, importer_, imported_) ==
    [ importer |-> importer_,
      imported |-> imported_,
      line_numbers |-> sorted_set(get_import_details(ref, importer_, imported_)) ]

\* The segment find_segments builds from one chain.
SegmentOf(ref, c) ==
    [ i \in 1..(Len(c) - 1) |-> SegmentLink(ref, c[i], c[i + 1]) ]

\* ------------------------------------------- segments_to_collapsed_chains

\* `Module(m) == importer or Module(m).is_descendant_of(importer)` without
\* the equality.
InFamily_strict(m, root) == is_descendant_of(m, root)

\* Module(m) == importer or Module(m).is_descendant_of(importer)
InFamily(m, root) == m = root \/ is_descendant_of(m, root)

head_imports(g, segment, importer_) ==
    LET imported_module == segment[1].imported
        candidate_modules == sorted(find_modules_that_directly_import(g, imported_module))
        kept == SelectSeq(candidate_modules, LAMBDA m : InFamily(m, importer_))
    IN  [ i \in 1..Len(kept) |->
            [ importer |-> kept[i],
              imported |-> imported_module,
              line_numbers |-> sorted_set(get_import_details(g, kept[i], imported_module)) ] ]

tail_imports(g, segment, imported_) ==
    LET importer_module == segment[Len(segment)].importer
        candidate_modules == sorted(find_modules_directly_imported_by(g, importer_module))
        kept == SelectSeq(candidate_modules, LAMBDA m : InFamily(m, imported_))
    IN  [ i \in 1..Len(kept) |->
            [ importer |-> importer_module,
              imported |-> kept[i],
              line_numbers |-> sorted_set(get_import_details(g, importer_module, kept[i])) ] ]

\* Whether the body of the loop raises for this segment: head_imports[0] or
\* tail_imports[0] of an empty list is an IndexError.
CollapseRaises(g, segment, importer_, imported_) ==
    \/ head_imports(g, segment, importer_) = <<>>
    \/ tail_imports(g, segment, imported_) = <<>>

\* The DetailedChain appended for one segment.
CollapseOne(g, segment, importer_, imported_) ==
    LET heads == head_imports(g, segment, importer_)
        tails == tail_imports(g, segment, imported_)
    IN  [ chain |-> <<heads[1]>> \o SubSeq(segment, 2, Len(segment) - 1) \o <<tails[1]>>,
          extra_firsts |-> Tail(heads),
          extra_lasts |-> Tail(tails) ]

\* segments_to_collapsed_chains: the list of DetailedChains, or the
\* IndexError of the first segment whose expansion is empty.
segments_to_collapsed_chains(g, segs, importer_, imported_) ==
    IF \E i \in 1..Len(segs) : CollapseRaises(g, segs[i], importer_, imported_)
    THEN [ error |-> TRUE, chains |-> <<>> ]
    ELSE [ error |-> FALSE,
           chains |-> [ i \in 1..Len(segs) |->
                          CollapseOne(g, segs[i], importer_, imported_) ] ]

\* --------------------------------------- build_detailed_chain_from_route

\* get_line_numbers: the line numbers as reported, (None,) when there is none.
get_line_numbers(importer_, imported_, g) ==
    LET details == get_import_details(g, importer_, imported_)
    IN  IF details # <<>> THEN details ELSE <<None>>

\* pairwise(iterable) as Links.
chain_as_links(names, g) ==
    [ i \in 1..(Len(names) - 1) |->
        [ importer |-> names[i],
          imported |-> names[i + 1],
          line_numbers |-> get_line_numbers(names[i], names[i + 1], g) ] ]

build_detailed_chain_from_route(route_, g) ==
    LET ordered_heads == sorted(route_.heads)
        ordered_tails == sorted(route_.tails)
        first == route_.middle[1]
        last == route_.middle[Len(route_.middle)]
    IN  [ chain |-> chain_as_links(<<ordered_heads[1]>> \o route_.middle \o <<ordered_tails[1]>>, g),
          extra_firsts |->
              [ i \in 1..(Len(ordered_heads) - 1) |->
                  [ importer |-> ordered_heads[i + 1],
                    imported |-> first,
                    line_numbers |-> get_line_numbers(ordered_heads[i + 1], first, g) ] ],
          extra_lasts |->
              [ i \in 1..(Len(ordered_tails) - 1) |->
                  [ importer |-> last,
                    imported |-> ordered_tails[i + 1],
                    line_numbers |-> get_line_numbers(last, ordered_tails[i + 1], g) ] ] ]

\* ----------------------------------------------------------------- notes

\* format_line_numbers: ", ".join("l.?" if n is None else f"l.{n}" ...).
RECURSIVE format_line_numbers(_)
format_line_numbers(line_numbers) ==
    LET one(n) == IF n = None THEN "l.?" ELSE "l." \o ToString(n)
    IN  IF line_numbers = <<>> THEN ""
        ELSE IF Len(line_numbers) = 1 THEN one(line_numbers[1])
        ELSE one(line_numbers[1]) \o ", " \o format_line_numbers(Tail(line_numbers))

\* ImportNote.__str__
NoteStr(note) == note.msg \o " (" \o format_line_numbers(note.line_numbers) \o ")"

RECURSIVE Spaces(_)
Spaces(n) == IF n = 0 THEN "" ELSE " " \o Spaces(n - 1)

ImportNote(module_, msg_, line_numbers_) ==
    [ module |-> module_, msg |-> msg_, line_numbers |-> line_numbers_ ]

\* _notes_from_direct_import; an absent extra_firsts / extra_lasts is <<>>,
\* as falsy as None.
_notes_from_direct_import(direct_import, extra_firsts, extra_lasts) ==
    LET sources == <<direct_import>> \o SubSeq(extra_firsts, 1, Len(extra_firsts) - 1)
        final == extra_firsts[Len(extra_firsts)]
        first_notes ==
            IF extra_firsts # <<>>
            THEN [ position \in 1..Len(sources) |->
                     ImportNote(
                         sources[position].importer,
                         (IF position > 1 THEN "& " ELSE "") \o Name(sources[position].importer),
                         sources[position].line_numbers) ]
                 \o << ImportNote(
                           final.importer,
                           "& " \o Name(final.importer) \o " -> " \o Name(final.imported),
                           final.line_numbers) >>
            ELSE << ImportNote(
                        direct_import.importer,
                        Name(direct_import.importer) \o " -> " \o Name(direct_import.imported),
                        direct_import.line_numbers) >>
        last_notes ==
            [ i \in 1..Len(extra_lasts) |->
                ImportNote(
                    direct_import.importer,
                    Spaces(NameLen(direct_import.importer) + 4) \o "& "
                        \o Name(extra_lasts[i].imported),
                    extra_lasts[i].line_numbers) ]
    IN  first_notes \o last_notes

RECURSIVE InteriorNotes(_)
InteriorNotes(links) ==
    IF links = <<>> THEN <<>>
    ELSE _notes_from_direct_import(Head(links), <<>>, <<>>) \o InteriorNotes(Tail(links))

\* notes_from_chain_data, for a non-empty chain.
notes_from_chain_data(chain_data) ==
    LET main_chain == chain_data.chain
    IN  _notes_from_direct_import(main_chain[1], chain_data.extra_firsts, <<>>)
        \o InteriorNotes(SubSeq(main_chain, 2, Len(main_chain) - 1))
        \o (IF Len(main_chain) > 1
            THEN _notes_from_direct_import(
                     main_chain[Len(main_chain)], <<>>, chain_data.extra_lasts)
            ELSE <<>>)

\* ----------------------------------------------------------------- state

VARIABLES
    reference_graph,   \* the graph find_segments and the collapsing only read
    graph,             \* the graph find_segments mutates
    pc,                \* where the run stands
    chain,             \* the chain _pop_shortest_chains yielded last
    yielded,           \* every chain yielded so far, in order
    removed,           \* every import remove_import took out of `graph`
    segments,          \* find_segments' list of segments
    collapse_input,    \* the segments given to segments_to_collapsed_chains
    collapsed_chains,  \* its result
    route,             \* the grimp.Route given to build_detailed_chain_from_route
    route_index,       \* the segment the route stands for
    route_chain,       \* its result
    note_input,        \* the DetailedChain given to notes_from_chain_data
    notes              \* its result

vars == << reference_graph, graph, pc, chain, yielded, removed, segments,
           collapse_input, collapsed_chains, route, route_index, route_chain,
           note_input, notes >>

\* The pair of modules the contract forbids.
importer == ModA
imported == ModZ

NoRoute == [ heads |-> {}, middle |-> <<>>, tails |-> {} ]
NoChainData == [ chain |-> <<>>, extra_firsts |-> <<>>, extra_lasts |-> <<>> ]

\* A reference graph of at most MaxEdges imports, each with its details; the
\* mutable graph is a copy of it, from which the caller has or has not yet
\* taken the direct import out.
Init ==
    /\ \E E \in SUBSET CandidateImports :
         /\ Cardinality(E) <= MaxEdges
         /\ \E d \in [E -> DetailChoices] :
              reference_graph = [ modules |-> Modules, imports |-> E, details |-> d ]
    /\ graph \in { reference_graph, remove_import(reference_graph, importer, imported) }
    /\ pc = "find_segments"
    /\ chain = <<>>
    /\ yielded = <<>>
    /\ removed = {}
    /\ segments = <<>>
    /\ collapse_input = <<>>
    /\ collapsed_chains = <<>>
    /\ route = NoRoute
    /\ route_index = 0
    /\ route_chain = NoChainData
    /\ note_input = NoChainData
    /\ notes = <<>>

\* _pop_shortest_chains, one turn of the loop that finds a chain: the chain's
\* imports are removed, then the chain is yielded to find_segments.
PopShortestChain ==
    /\ pc = "find_segments"
    /\ \E c \in find_shortest_chain(graph, importer, imported) :
         /\ ChainFound(c)
         /\ graph' = RemoveChain(graph, c, 1)
         /\ chain' = c
         /\ yielded' = Append(yielded, c)
    /\ removed' = removed \cup (graph.imports \ graph'.imports)
    /\ pc' = "yielded"
    /\ UNCHANGED << reference_graph, segments, collapse_input, collapsed_chains,
                    route, route_index, route_chain, note_input, notes >>

\* _pop_shortest_chains, the turn that finds no chain: the generator is
\* exhausted and find_segments returns its segments.
PopExhausted ==
    /\ pc = "find_segments"
    /\ \E c \in find_shortest_chain(graph, importer, imported) :
         /\ ~ChainFound(c)
         /\ chain' = c
    /\ pc' = "segments_returned"
    /\ UNCHANGED << reference_graph, graph, yielded, removed, segments,
                    collapse_input, collapsed_chains, route, route_index,
                    route_chain, note_input, notes >>

\* find_segments, the body of its loop for a direct chain: ValueError.
FindSegmentsRaise ==
    /\ pc = "yielded"
    /\ IsDirectChain(chain)
    /\ pc' = "ValueError"
    /\ UNCHANGED << reference_graph, graph, chain, yielded, removed, segments,
                    collapse_input, collapsed_chains, route, route_index,
                    route_chain, note_input, notes >>

\* find_segments, the body of its loop otherwise: the segment is appended.
FindSegmentsAppend ==
    /\ pc = "yielded"
    /\ ~IsDirectChain(chain)
    /\ segments' = Append(segments, SegmentOf(reference_graph, chain))
    /\ pc' = "find_segments"
    /\ UNCHANGED << reference_graph, graph, chain, yielded, removed,
                    collapse_input, collapsed_chains, route, route_index,
                    route_chain, note_input, notes >>

\* What a caller gives segments_to_collapsed_chains: the segments
\* find_segments returned, or a single segment that is the direct import.
CollapseInputs ==
    { segments, << << SegmentLink(reference_graph, importer, imported) >> >> }

SegmentsToCollapsedChains ==
    /\ pc = "segments_returned"
    /\ \E segs \in CollapseInputs :
         LET result == segments_to_collapsed_chains(reference_graph, segs, importer, imported)
         IN  /\ collapse_input' = segs
             /\ collapsed_chains' = result.chains
             /\ pc' = IF result.error THEN "IndexError" ELSE "collapsed"
    /\ UNCHANGED << reference_graph, graph, chain, yielded, removed, segments,
                    route, route_index, route_chain, note_input, notes >>

\* The modules of a segment between its first and its last import.
Middle(segment) == [ i \in 1..(Len(segment) - 1) |-> segment[i].imported ]

Importers(links) == { links[i].importer : i \in 1..Len(links) }
Importeds(links) == { links[i].imported : i \in 1..Len(links) }

\* The routes grimp may report for a segment: its middle, with all of the
\* heads (tails) of the two families or a single one of them.
RoutesOf(segment) ==
    LET H == Importers(head_imports(reference_graph, segment, importer))
        T == Importeds(tail_imports(reference_graph, segment, imported))
    IN  { [ heads |-> hs, middle |-> Middle(segment), tails |-> ts ] :
            hs \in { H } \cup { { h } : h \in H },
            ts \in { T } \cup { { t } : t \in T } }

BuildDetailedChainFromRoute ==
    /\ pc = "collapsed"
    /\ collapse_input = segments
    /\ \E i \in 1..Len(segments) :
         \E r \in RoutesOf(segments[i]) :
            /\ route' = r
            /\ route_index' = i
            /\ route_chain' = build_detailed_chain_from_route(r, reference_graph)
    /\ pc' = "route_built"
    /\ UNCHANGED << reference_graph, graph, chain, yielded, removed, segments,
                    collapse_input, collapsed_chains, note_input, notes >>

\* The DetailedChains of one import a contract reports: an import by a module
\* of the importer's family, alone or with the importer's other imports of
\* the imported family as extra_lasts.
SingleLinkChains ==
    UNION { LET link == SegmentLink(reference_graph, e[1], e[2])
                others == tail_imports(
                              [reference_graph EXCEPT !.imports = @ \ { e }],
                              << link >>, imported)
            IN  { [ chain |-> << link >>, extra_firsts |-> <<>>, extra_lasts |-> <<>> ],
                  [ chain |-> << link >>, extra_firsts |-> <<>>, extra_lasts |-> others ] }
          : e \in { f \in reference_graph.imports : InFamily(f[1], importer) } }

NotesFromChainData ==
    /\ \/ /\ pc = "collapsed"
          /\ note_input' \in
                { collapsed_chains[i] : i \in 1..Len(collapsed_chains) }
                    \cup (IF collapse_input = segments THEN SingleLinkChains ELSE {})
       \/ /\ pc = "route_built"
          /\ note_input' = route_chain
    /\ notes' = notes_from_chain_data(note_input')
    /\ pc' = "notes"
    /\ UNCHANGED << reference_graph, graph, chain, yielded, removed, segments,
                    collapse_input, collapsed_chains, route, route_index,
                    route_chain >>

Next ==
    \/ PopShortestChain
    \/ PopExhausted
    \/ FindSegmentsRaise
    \/ FindSegmentsAppend
    \/ SegmentsToCollapsedChains
    \/ BuildDetailedChainFromRoute
    \/ NotesFromChainData

Spec == Init /\ [][Next]_vars

\* ---------------------------------------------------------------- claims

\* The mutable graph as find_segments received it.
InitialGraph == [graph EXCEPT !.imports = graph.imports \cup removed]

\* The loop of _pop_shortest_chains has just run to its end and find_segments
\* returned (no later step touches the mutable graph or the segments).
Exhausted == pc = "segments_returned"

DirectImport == <<importer, imported>>

\* The imports of g that lie on some chain from a to b.
OnPathImports(g, a, b) == UNION { ChainImports(c) : c \in AllChains(g, a, b) }

\* C1: the loop of _pop_shortest_chains ends after finitely many turns: a
\* turn that yields a chain leaves the mutable graph with fewer imports than
\* it had, so there are never more turns than the graph had imports, and the
\* loop can always take its next turn; when the loop has run to its end the
\* mutable graph holds no chain from importer to imported.
C1_PopTerminates ==
    /\ [][pc' = "yielded" =>
            Cardinality(graph'.imports) < Cardinality(graph.imports)]_vars
    /\ [](Len(yielded) <= Cardinality(InitialGraph.imports))
    /\ [](pc = "find_segments" => ENABLED (PopShortestChain \/ PopExhausted))
    /\ [](Exhausted => ~HasPath(graph, importer, imported))

\* The loop has ended after yielding two chains.
C1_Witness == pc = "segments_returned" /\ Len(yielded) >= 2

\* C2: no import lies on two yielded chains, and every import of a yielded
\* chain is out of the mutable graph by the time the chain is yielded, hence
\* before the next find_shortest_chain.
C2_EdgeDisjoint ==
    /\ \A i, j \in 1..Len(yielded) :
         i < j => ChainImports(yielded[i]) \cap ChainImports(yielded[j]) = {}
    /\ \A i \in 1..Len(yielded) : ChainImports(yielded[i]) \cap graph.imports = {}

\* Two chains of two imports each have been yielded.
C2_Witness == Len(yielded) = 2 /\ Len(yielded[1]) = 3 /\ Len(yielded[2]) = 3

\* C3, as stated: with no direct import, once the loop has ended the removed
\* imports are exactly the imports that lay on some chain from importer to
\* imported in the graph as it was received.
C3_RemovedEqualsOnPath ==
    (Exhausted /\ DirectImport \notin InitialGraph.imports)
        => removed = OnPathImports(InitialGraph, importer, imported)

\* C3, amended: with no direct import, once the loop has ended every removed
\* import lay on some chain from importer to imported in the graph as it was
\* received, and every such chain has lost at least one import.
C3_RemovedWithinOnPath ==
    (Exhausted /\ DirectImport \notin InitialGraph.imports)
        => /\ removed \subseteq OnPathImports(InitialGraph, importer, imported)
           /\ \A c \in AllChains(InitialGraph, importer, imported) :
                ChainImports(c) \cap removed # {}

\* The loop has ended having removed some, but not all, of the imports that
\* lay on a chain.
C3_Witness ==
    /\ Exhausted
    /\ DirectImport \notin InitialGraph.imports
    /\ removed # {}
    /\ removed # OnPathImports(InitialGraph, importer, imported)

\* C4: when the mutable graph find_segments receives holds the direct import,
\* find_segments never returns (the first chain it is yielded is the direct
\* one, for which it raises ValueError) and has appended no segment; every
\* segment of a list it does return has at least two links.
C4_DirectImportRaises ==
    /\ DirectImport \in InitialGraph.imports =>
         /\ pc \in { "find_segments", "yielded", "ValueError" }
         /\ segments = <<>>
         /\ pc = "find_segments" => yielded = <<>>
         /\ pc # "find_segments" => yielded = << <<importer, imported>> >>
    /\ Exhausted => \A i \in 1..Len(segments) : Len(segments[i]) >= 2

\* find_segments has raised while another chain is still in the graph.
C4_Witness == pc = "ValueError" /\ HasPath(graph, importer, imported)

\* C5, as stated: given a segment of exactly one link, the direct import,
\* segments_to_collapsed_chains raises instead of returning a DetailedChain.
C5_CollapseRejectsDirect ==
    (/\ pc \in { "collapsed", "IndexError" }
     /\ \E i \in 1..Len(collapse_input) : Len(collapse_input[i]) = 1)
        => pc = "IndexError"

\* The modules of `root`'s family among S.
Family(S, root) == { m \in S : m = root \/ is_descendant_of(m, root) }

\* m is the first of S in lexicographic order.
IsMin(m, S) == m \in S /\ \A o \in S : o = m \/ StrLess(m, o)

\* The Links are in strictly ascending order of the names `field` picks.
Ascending(links, field(_)) ==
    \A k \in 1..(Len(links) - 1) : StrLess(field(links[k]), field(links[k + 1]))

\* C6: for every segment of at least two links, the DetailedChain is the link
\* from the least of H, the segment's inner links, the link to the least of
\* T; extra_firsts are the links from the rest of H in order, extra_lasts
\* the links to the rest of T in order; in chain every link's imported is
\* the next link's importer.
C6_CollapsedShape ==
    pc = "collapsed" =>
        \A i \in 1..Len(collapse_input) :
            LET seg == collapse_input[i]
                dc == collapsed_chains[i]
                n == Len(seg)
                H == Family(find_modules_that_directly_import(
                                reference_graph, seg[1].imported), importer)
                T == Family(find_modules_directly_imported_by(
                                reference_graph, seg[n].importer), imported)
            IN  n >= 2 =>
                  /\ Len(dc.chain) = n
                  /\ IsMin(dc.chain[1].importer, H)
                  /\ dc.chain[1].imported = seg[1].imported
                  /\ \A k \in 2..(n - 1) : dc.chain[k] = seg[k]
                  /\ dc.chain[n].importer = seg[n].importer
                  /\ IsMin(dc.chain[n].imported, T)
                  /\ Importers(dc.extra_firsts) = H \ { dc.chain[1].importer }
                  /\ Len(dc.extra_firsts) = Cardinality(H) - 1
                  /\ Ascending(dc.extra_firsts, LAMBDA l : l.importer)
                  /\ \A k \in 1..Len(dc.extra_firsts) :
                        dc.extra_firsts[k].imported = seg[1].imported
                  /\ Importeds(dc.extra_lasts) = T \ { dc.chain[n].imported }
                  /\ Len(dc.extra_lasts) = Cardinality(T) - 1
                  /\ Ascending(dc.extra_lasts, LAMBDA l : l.imported)
                  /\ \A k \in 1..Len(dc.extra_lasts) :
                        dc.extra_lasts[k].importer = seg[n].importer
                  /\ \A k \in 1..(n - 1) : dc.chain[k].imported = dc.chain[k + 1].importer

\* A segment of at least two links has been collapsed with an extra first
\* and an extra last.
C6_Witness ==
    /\ pc = "collapsed"
    /\ \E i \in 1..Len(collapse_input) :
         /\ Len(collapse_input[i]) >= 2
         /\ collapsed_chains[i].extra_firsts # <<>>
         /\ collapsed_chains[i].extra_lasts # <<>>

\* C7, as stated: for a route whose heads and tails are exactly the heads and
\* tails of the two families, build_detailed_chain_from_route returns the
\* DetailedChain the collapsing built for the same segment, line numbers
\* included.
C7_RouteEqualsCollapsed ==
    (/\ pc = "route_built"
     /\ route.heads = Importers(head_imports(reference_graph, segments[route_index], importer))
     /\ route.tails = Importeds(tail_imports(reference_graph, segments[route_index], imported)))
        => route_chain = collapsed_chains[route_index]

\* Every Link of a sequence of DetailedChains.
LinksOf(chains) ==
    UNION { LET dc == chains[i]
            IN  { dc.chain[k] : k \in 1..Len(dc.chain) }
                \cup { dc.extra_firsts[k] : k \in 1..Len(dc.extra_firsts) }
                \cup { dc.extra_lasts[k] : k \in 1..Len(dc.extra_lasts) }
          : i \in 1..Len(chains) }

\* The Links the three builders have made so far.
BuiltLinks ==
    UNION { { segments[i][k] : k \in 1..Len(segments[i]) } : i \in 1..Len(segments) }
        \cup (IF collapse_input = segments THEN LinksOf(collapsed_chains) ELSE {})
        \cup LinksOf(<< route_chain >>)

\* C8, as stated: a Link of an import that has no recorded detail, whichever
\* of find_segments, segments_to_collapsed_chains and
\* build_detailed_chain_from_route built it, has a note that renders as
\* "<importer> -> <imported> (l.?)".
C8_UnknownLinePlaceholder ==
    \A link \in BuiltLinks :
        get_import_details(reference_graph, link.importer, link.imported) = <<>>
            => NoteStr(_notes_from_direct_import(link, <<>>, <<>>)[1])
                 = Name(link.importer) \o " -> " \o Name(link.imported) \o " (l.?)"

LineNumbersOf(links) == [ k \in 1..Len(links) |-> links[k].line_numbers ]

\* C9, as stated: for a DetailedChain with a non-empty chain there is one
\* note per link of chain, extra_firsts and extra_lasts, each with its link's
\* line numbers, in the order: first link, extra_firsts, inner links, last
\* link, extra_lasts.
C9_OneNotePerLink ==
    (pc = "notes" /\ note_input.chain # <<>>) =>
        LET c == note_input.chain
            n == Len(c)
            expected ==
                << c[1] >> \o note_input.extra_firsts \o SubSeq(c, 2, n - 1)
                    \o (IF n > 1 THEN << c[n] >> ELSE <<>>) \o note_input.extra_lasts
        IN  /\ Len(notes) = n + Len(note_input.extra_firsts) + Len(note_input.extra_lasts)
            /\ LineNumbersOf(notes) = LineNumbersOf(expected)

\* C10: no step of find_segments and segments_to_collapsed_chains changes
\* the reference graph; a step changes the mutable graph only by taking out
\* imports of the chain just discovered in it: no import is added, no module
\* is removed, no import off that chain is removed.
C10_Frame ==
    [][ /\ reference_graph' = reference_graph
        /\ graph'.modules = graph.modules
        /\ graph'.imports \subseteq graph.imports
        /\ graph' # graph =>
             /\ chain' \in find_shortest_chain(graph, importer, imported)
             /\ (graph.imports \ graph'.imports) \subseteq ChainImports(chain')
      ]_vars

\* The collapsing has run after find_segments removed two chains.
C10_Witness == pc = "collapsed" /\ Len(yielded) = 2 /\ collapse_input = segments

====
